---- MODULE Spec2Model ----
(***************************************************************************)
(* Background script of the extension (src/src/background/index.mjs):      *)
(* the credential cache and getAccessToken, and the port.onMessage handler *)
(* that dispatches a session to a backend and reports failures.            *)
(***************************************************************************)
EXTENDS Integers, Sequences, FiniteSets, TLC

\* ------------------------------------------------------------------ bounds
MaxReqs == 2      \* handlers in flight at a time
MaxMsgs == 3      \* messages received over all ports
NumPorts == 1     \* ports connected
MaxRefresh == 3   \* calls of refreshMenu, the one at load included
MaxClicks == 2    \* menu items activated

Reqs == 1..MaxReqs
Ports == 1..NumPorts

\* --------------------------------------------------------------- constants
KEY_ACCESS_TOKEN == "accessToken"
MaxAge == 10 * 1000
AbortMarker == "aborted"
MsgCloudflare == "CLOUDFLARE"
MsgUnauthorized == "UNAUTHORIZED"
\* The TypeError of reading a property of null (line 44, data = null).
MsgNullBody == "Cannot read properties of null (reading 'accessToken')"

\* Model keys of the four families (config/index.mjs).
chatgptWebModelKeys == <<"chatgptFree35", "chatgptPlus4">>
gptApiModelKeys == <<"gptApiDavinci">>
chatgptApiModelKeys == <<"chatgptApi35", "chatgptApi4_8k", "chatgptApi4_32k">>
customApiModelKeys == <<"customModel">>

\* The capability each key list is paired with: "web" is
\* generateAnswersWithChatgptWebApi, "completion"
\* generateAnswersWithGptCompletionApi, "chat" generateAnswersWithChatgptApi,
\* "custom" generateAnswersWithCustomApi.
TokenFamilies == {"completion", "chat", "custom"}
BackendFamilies == {"web"} \cup TokenFamilies
ModelKeys == [f \in BackendFamilies |->
                 CASE f = "web" -> chatgptWebModelKeys
                   [] f = "completion" -> gptApiModelKeys
                   [] f = "chat" -> chatgptApiModelKeys
                   [] f = "custom" -> customApiModelKeys]

\* ------------------------------------------------------------ input values
\* config.modelName values a configuration read may return.
ModelNames == {"chatgptFree35", "gptApiDavinci", "chatgptApi35", "customModel", "unknownModel"}
ApiKeys == {"sk-1", "sk-2"}
Configs == [modelName : ModelNames, apiKey : ApiKeys]

\* Values of an accessToken field: missing, empty string, or a token.
NoField == "<undefined>"
Tokens == {"tokA", "tokB"}
TokenFields == {NoField, ""} \cup Tokens

\* Responses of the session endpoint: a status, and a body that is no JSON
\* ("no"), the JSON value null ("null"), or a JSON object with or without an
\* accessToken field ("object").
Statuses == {200, 403}
NoBody == [parsed |-> "unread", accessToken |-> NoField]
Bodies == {[parsed |-> "no", accessToken |-> NoField],
           [parsed |-> "null", accessToken |-> NoField]}
            \cup {[parsed |-> "object", accessToken |-> t] : t \in TokenFields}

\* Messages of the errors the awaited calls can reject with.
FetchErrors == {"Failed to fetch", "The operation was aborted."}
StorageErrors == {"storage unavailable"}
BackendErrors == {"rate limited", "BodyStreamBuffer was aborted"}
MsgUserAbort == "The user aborted a request."
NoErr == ""

\* Identifiers carried by a session: null, undefined, a caller's value
\* (n = 0 stands for the empty string), or a generated uuid.
Null == [kind |-> "null", n |-> 0]
Undefined == [kind |-> "undefined", n |-> 0]
CallerId(n) == [kind |-> "caller", n |-> n]
Uuid(n) == [kind |-> "uuid", n |-> n]
NoSession == [present |-> FALSE, messageId |-> Undefined, parentMessageId |-> Undefined]
Session(mid, pmid) == [present |-> TRUE, messageId |-> mid, parentMessageId |-> pmid]
NewSessions == {Session(Undefined, Undefined), Session(CallerId(1), Null),
                Session(CallerId(1), CallerId(0))}

\* ---------------------------------------------------------- pure functions
\* String.prototype.includes
StrIncludes(s, sub) ==
    \E i \in 1..(Len(s) - Len(sub) + 1) : SubSeq(s, i, i + Len(sub) - 1) = sub

\* Array.prototype.includes
ListIncludes(list, x) == \E i \in 1..Len(list) : list[i] = x

\* JavaScript truthiness of an accessToken field
Truthy(t) == t \notin {NoField, ""}

\* x == null
IsNullish(id) == id.kind \in {"null", "undefined"}


\* ------------------------------------------------------------------- state
VARIABLES
    safari,      \* isSafari(): fixed by the environment
    cache,       \* the ExpiryMap: the entry under KEY_ACCESS_TOKEN and its timeouts
    portState,   \* per port: "none", "open" (connected) or "closed"
    req,         \* the runs of the message handler in flight: position and locals
    received,    \* the messages received so far
    lastStore,   \* the last cache.set: its age, whether a cache.delete followed
    invalPending,\* a cache.delete ran and getAccessToken was not entered since
    answered,    \* the sessions the web backend was called with that a later
                 \* message can carry (none once message MaxMsgs has arrived)
    ev,          \* what the step that led to this state did
    api,         \* contextMenus requests issued and not yet carried out, in order
    thens,       \* removeAll() promises resolved whose callback has not run yet
    menu,        \* the browser's context menu: the items created, in order
    listeners,   \* listeners registered on contextMenus.onClicked
    refreshes,   \* calls of refreshMenu so far
    raced,       \* refreshMenu was called while an earlier rebuild was unfinished
    clicks,      \* menu items activated so far
    lastClick,   \* the last activation: item, selection and tab
    sentMsgs     \* the messages that activation made the listeners send

menuVars == <<api, thens, menu, listeners, refreshes, raced, clicks, lastClick, sentMsgs>>
vars == <<safari, cache, portState, req, received, lastStore, invalPending, answered, ev,
          api, thens, menu, listeners, refreshes, raced, clicks, lastClick, sentMsgs>>

\* ExpiryMap holding at most the entry of KEY_ACCESS_TOKEN, with the state
\* of the cleaner that removes entries (expiry-map over map-age-cleaner):
\*   has, val  the entry; age is the time in ms since it was stored
\*   timers    the timeouts armed and not yet run, oldest first, each with
\*             the time left until it is due (0: due, it runs when the
\*             event loop gets to it)
\*   tracked   the cleaner's processingKey is this key: the next set clears
\*             the timeout armed last before arming its own
\*   abandoned the cleanup loops a set has abandoned and that have not
\*             resumed yet; each resumes in a microtask and then resets
\*             processingKey
\* get() returns the entry whatever its age; only a timeout removes it.
Empty == [has |-> FALSE, val |-> NoField, age |-> 0, timers |-> <<>>, tracked |-> FALSE,
          abandoned |-> 0]

CacheGet(c) == IF c.has THEN c.val ELSE NoField

\* Variant: set loses the value.
CacheSet_Lost(c, v) == c

\* set(): the entry is replaced and a timeout of maxAge is armed for it by
\* a new cleanup loop, which tracks the key.  When the cleaner tracked the
\* key already, the timeout armed last is cleared first and the loop that
\* waited for it is abandoned; when it did not, the timeouts armed earlier
\* stay armed.
CacheSet(c, v) ==
    [has |-> TRUE, val |-> v, age |-> 0,
     timers |-> (IF c.tracked /\ c.timers # <<>>
                 THEN SubSeq(c.timers, 1, Len(c.timers) - 1)
                 ELSE c.timers) \o <<MaxAge>>,
     tracked |-> TRUE,
     abandoned |-> IF c.tracked THEN c.abandoned + 1 ELSE c.abandoned]

\* An abandoned cleanup loop resumes: it resets processingKey, whichever
\* loop set it.
CacheCleanup(c) == [c EXCEPT !.tracked = FALSE, !.abandoned = @ - 1]

\* delete(): the entry is removed, the cleaner is not told.
CacheDelete(c) == [c EXCEPT !.has = FALSE, !.val = NoField, !.age = 0]

\* d milliseconds pass.
Older(a, d) == IF a + d > MaxAge THEN MaxAge + 1 ELSE a + d
CacheAdvance(c, d) ==
    [c EXCEPT !.age = IF c.has THEN Older(@, d) ELSE @,
              !.timers = [i \in 1..Len(c.timers) |->
                             IF c.timers[i] > d THEN c.timers[i] - d ELSE 0]]

\* The oldest timeout runs: it deletes the key, whichever entry is stored
\* under it, and the cleanup loop that waited ends.
CacheTimeout(c) ==
    [CacheDelete(c) EXCEPT !.timers = Tail(c.timers), !.tracked = FALSE]

NoEnvelope == [port |-> 0, error |-> NoErr]
NoResp == [status |-> 0, body |-> NoBody]
NoStore == [has |-> FALSE, val |-> NoField, age |-> 0, deleted |-> FALSE]
NoConfig == [modelName |-> "", apiKey |-> ""]

\* One run of a message handler, kind "session" for the port listener of
\* line 54 and "feedback" for the FEEDBACK listener of line 103 (which has
\* no port).  pc is its position ("idle" when the slot
\* holds no run; "config", "fetch", "json", "safariConfig", "streaming" at
\* an await of lines 58, 39, 43, 32, 67-91 or 106; "token" when
\* getAccessToken has returned and the await of line 62 or 105 has not
\* resumed yet), no the number of its message, port and session its locals,
\* status the status of the response whose body is being read,
\* fetches the fetches getAccessToken started for it, backend the family
\* whose capability it called, aborted whether that call was cancelled;
\* sent is the session as the message carried it, modelName the
\* config.modelName of line 58, accessToken the local of line 62.
IdleReq == [pc |-> "idle", kind |-> "none", no |-> 0, port |-> 0, session |-> NoSession,
            sent |-> NoSession, modelName |-> "", accessToken |-> NoField,
            status |-> 0,
            fetches |-> 0, backend |-> "none", aborted |-> FALSE]

\* What a step did for the run of message no:
\*   kind, no, port are those of the run
\*   got   getAccessToken was entered: "hit" (line 29) or "miss", else "none"
\*   fetched  the token the fetch or the configuration read delivered and
\*         line 34 or 47 stored in this step; accessToken is then the value
\*         getAccessToken returned (also on a hit)
\*   call  the family whose capability was called, with session,
\*         accessToken, apiKey and modelName as arguments, else "none";
\*         received is the session as the message carried it and fetches the
\*         fetches the run made
\*   end   how the run ended: "ignored" (line 57), "done", "failed" (the
\*         catch block ran to its end), "escaped" (an error left the
\*         handler), else "none"; err is the error thrown, caught whether
\*         the catch block was entered, resp the response the fetch saw,
\*         envelope what line 96 posted, backend the family the run had
\*         called and aborted whether that call was cancelled
\*   config is the configuration line 58 read in this step, modelName the
\*   config.modelName of the run that calls a backend, apiKey the key a
\*   token-based call is given
NoEvent == [kind |-> "none", no |-> 0, port |-> 0, got |-> "none", call |-> "none", end |-> "none",
            session |-> NoSession, received |-> NoSession, accessToken |-> NoField,
            config |-> NoConfig, apiKey |-> "", modelName |-> "",
            fetched |-> NoField, fetches |-> 0, backend |-> "none", aborted |-> FALSE,
            err |-> NoErr, caught |-> FALSE, resp |-> NoResp, envelope |-> NoEnvelope]

\* The event of a step of run rq.
Event(rq) ==
    [NoEvent EXCEPT !.kind = rq.kind, !.no = rq.no, !.port = rq.port,
                    !.backend = rq.backend,
                    !.aborted = rq.aborted]

\* ------------------------------------------------------------ context menu
\* Lines 110-164.  The menu shares no state with the listeners above.
menuId == "ChatGPTBox-Menu"

\* Keys of menuConfig (content-script/menu-tools) and of
\* defaultConfig.selectionTools (config/index.mjs).
menuConfigKeys == <<"new_chat">>
selectionTools == <<"translate", "summary">>

\* String.prototype.replace with a string pattern: the first occurrence.
FirstIndex(s, sub) ==
    IF StrIncludes(s, sub)
    THEN CHOOSE i \in 1..(Len(s) - Len(sub) + 1) :
            /\ SubSeq(s, i, i + Len(sub) - 1) = sub
            /\ \A j \in 1..(i - 1) : SubSeq(s, j, j + Len(sub) - 1) # sub
    ELSE 0
StrReplace(s, sub, by) ==
    IF FirstIndex(s, sub) = 0 THEN s
    ELSE SubSeq(s, 1, FirstIndex(s, sub) - 1) \o by
           \o SubSeq(s, FirstIndex(s, sub) + Len(sub), Len(s))

\* Requests to the contextMenus API.
NoParent == ""
RemoveAllReq == [op |-> "removeAll", id |-> "", parentId |-> NoParent]
CreateReq(id, parentId) == [op |-> "create", id |-> id, parentId |-> parentId]

\* Lines 113-142: the create calls of one rebuild, in the code's order.
CreateCalls ==
    <<CreateReq(menuId, NoParent)>>
    \o [i \in 1..Len(menuConfigKeys) |-> CreateReq(menuId \o menuConfigKeys[i], menuId)]
    \o <<CreateReq(menuId \o "separator1", menuId)>>
    \o [i \in 1..Len(selectionTools) |-> CreateReq(menuId \o selectionTools[i], menuId)]

\* The menu tree one rebuild makes.
Item(id, parentId) == [id |-> id, parentId |-> parentId]
FullMenu == [i \in 1..Len(CreateCalls) |-> Item(CreateCalls[i].id, CreateCalls[i].parentId)]
HasItem(m, id) == \E i \in 1..Len(m) : m[i].id = id

\* Variant: an item is added whether or not its id exists.
MenuCreate_Again(m, c) == Append(m, Item(c.id, c.parentId))

\* contextMenus.create: an item with the id of an existing item, or with a
\* parent that does not exist, is rejected and the menu stays as it is.
MenuCreate(m, c) ==
    IF HasItem(m, c.id) \/ (c.parentId # NoParent /\ ~HasItem(m, c.parentId))
    THEN m
    ELSE Append(m, Item(c.id, c.parentId))

Tabs == {1, 2}
SelectionTexts == {NoField, "some text"}
NoClick == [id |-> "", text |-> NoField, tab |-> 0]

\* Lines 145-153: the message one listener sends for an activation.
CreateMenuMessage(info, tab) ==
    [tab |-> tab, type |-> "CREATE_MENU",
     data |-> [itemId |-> StrReplace(info.id, menuId, ""), selectionText |-> info.text]]

\* Line 164: refreshMenu() was called at load, its removeAll() is issued.
MenuInit ==
    /\ api = <<RemoveAllReq>>
    /\ thens = 0
    /\ menu = <<>>
    /\ listeners = 0
    /\ refreshes = 1
    /\ raced = FALSE
    /\ clicks = 0
    /\ lastClick = NoClick
    /\ sentMsgs = <<>>

\* The state after the script was loaded.
Init ==
    /\ safari \in BOOLEAN
    /\ cache = Empty
    /\ portState = [p \in Ports |-> "none"]
    /\ req = [r \in Reqs |-> IdleReq]
    /\ received = 0
    /\ lastStore = NoStore
    /\ invalPending = FALSE
    /\ answered = {}
    /\ ev = NoEvent
    /\ MenuInit

\* ----------------------------------------------------------------- helpers
\* The families whose key list holds modelName.
FamiliesOf(modelName) ==
    {f \in BackendFamilies : ListIncludes(ModelKeys[f], modelName)}

\* Variant: the completion and chat capabilities are paired with each
\* other's key lists.
Family_Swapped(modelName) ==
    IF ListIncludes(chatgptWebModelKeys, modelName) THEN "web"
    ELSE IF ListIncludes(gptApiModelKeys, modelName) THEN "chat"
    ELSE IF ListIncludes(chatgptApiModelKeys, modelName) THEN "completion"
    ELSE IF ListIncludes(customApiModelKeys, modelName) THEN "custom"
    ELSE "none"

\* Variant: a key of no family falls back to the custom capability.
Family_Default(modelName) ==
    IF ListIncludes(chatgptWebModelKeys, modelName) THEN "web"
    ELSE IF ListIncludes(gptApiModelKeys, modelName) THEN "completion"
    ELSE IF ListIncludes(chatgptApiModelKeys, modelName) THEN "chat"
    ELSE "custom"

\* Family tests of the dispatch (lines 61, 68, 76, 84), in the code's order.
Family(modelName) ==
    IF ListIncludes(chatgptWebModelKeys, modelName) THEN "web"
    ELSE IF ListIncludes(gptApiModelKeys, modelName) THEN "completion"
    ELSE IF ListIncludes(chatgptApiModelKeys, modelName) THEN "chat"
    ELSE IF ListIncludes(customApiModelKeys, modelName) THEN "custom"
    ELSE "none"

\* uuidv4() returns a value never returned before: the k-th call of the run
\* of message no returns Uuid(UuidBase(no) + k - 1).
UuidBase(no) == 2 * no - 1

\* Variant: a parent identifier is generated whatever the message carried.
WebSession_NewParent(s, n) ==
    [s EXCEPT !.messageId = Uuid(n), !.parentMessageId = Uuid(n + 1)]

\* Variant: a message identifier of the caller is kept.
WebSession_KeepId(s, n) ==
    [s EXCEPT !.messageId = IF IsNullish(@) THEN Uuid(n) ELSE @,
              !.parentMessageId = IF IsNullish(@) THEN Uuid(n + 1) ELSE @]

\* Lines 63-66: the session after the handler's assignments, n being the
\* number of the first uuid the run generates.
WebSession(s, n) ==
    [s EXCEPT !.messageId = Uuid(n),
              !.parentMessageId = IF IsNullish(@) THEN Uuid(n + 1) ELSE @]

\* Variant: every error is reported.
ShouldReport_Always(msg) == TRUE

\* Line 95: whether the catch block reports the error.
ShouldReport(msg) == ~StrIncludes(msg, AbortMarker)

\* Variant: posting on a disconnected port goes through.
CanPost_Always(p) == TRUE

\* Line 96: port.postMessage throws on a port that is not connected.
CanPost(p) == portState[p] = "open"

\* Lines 63-67: the await of line 62 resumes in run r: the session is given
\* its identifiers and the web backend is called with the token
\* getAccessToken returned.  The locals the handler no longer reads are
\* dropped.  The backend reports the session to the caller, who can send
\* it with the next turn while a further message can arrive.
CallWeb(r) ==
    LET s == WebSession(req[r].session, UuidBase(req[r].no))
    IN /\ req' = [req EXCEPT ![r] = [@ EXCEPT !.pc = "streaming", !.backend = "web",
                                               !.session = NoSession, !.sent = NoSession,
                                               !.modelName = ""]]
       /\ answered' = IF received < MaxMsgs THEN answered \cup {s} ELSE answered
       /\ ev' = [Event(req[r]) EXCEPT !.call = "web", !.session = s,
                                      !.received = req[r].sent,
                                      !.modelName = req[r].modelName,
                                      !.accessToken = req[r].accessToken,
                                      !.fetches = req[r].fetches]

\* Variant: the key of the default configuration is passed.
CallApi_Stale(r, family, cfg) ==
    /\ req' = [req EXCEPT ![r] = [@ EXCEPT !.pc = "streaming", !.backend = family,
                                            !.session = NoSession, !.sent = NoSession]]
    /\ ev' = [Event(req[r]) EXCEPT !.call = family, !.session = req[r].session,
                                   !.received = req[r].sent, !.config = cfg,
                                   !.apiKey = "sk-1", !.modelName = cfg.modelName]

\* Lines 68-91: a token-based backend is called by run r with cfg.
CallApi(r, family, cfg) ==
    /\ req' = [req EXCEPT ![r] = [@ EXCEPT !.pc = "streaming", !.backend = family,
                                            !.session = NoSession, !.sent = NoSession]]
    /\ ev' = [Event(req[r]) EXCEPT !.call = family, !.session = req[r].session,
                                   !.received = req[r].sent, !.config = cfg,
                                   !.apiKey = cfg.apiKey, !.modelName = cfg.modelName]

\* Lines 93-99: the catch block for an error with message msg thrown in the
\* run r, which saw the response resp.  When postMessage throws, the block
\* ends before line 97 and the error leaves the handler.
Catch(r, msg, resp) ==
    LET p == req[r].port
        posts == ShouldReport(msg) /\ CanPost(p)
        throws == ShouldReport(msg) /\ ~CanPost(p)
    IN /\ ev' = [Event(req[r]) EXCEPT !.end = IF throws THEN "escaped" ELSE "failed",
                     !.err = msg, !.caught = TRUE, !.resp = resp,
                     !.session = req[r].session, !.received = req[r].sent,
                     !.envelope = IF posts THEN [port |-> p, error |-> msg] ELSE NoEnvelope]
       /\ cache' = IF posts THEN CacheDelete(cache) ELSE cache
       /\ req' = [req EXCEPT ![r] = IdleReq]
       /\ lastStore' = IF posts /\ lastStore.has
                       THEN [NoStore EXCEPT !.has = TRUE, !.deleted = TRUE]
                       ELSE lastStore
       /\ invalPending' = (invalPending \/ posts)

\* The run r ends at pc without an error.
Finish(r, pc) ==
    /\ ev' = [Event(req[r]) EXCEPT !.end = pc, !.session = req[r].session,
                                   !.received = req[r].sent,
                                   !.accessToken = req[r].accessToken,
                                   !.fetches = req[r].fetches]
    /\ req' = [req EXCEPT ![r] = IdleReq]

\* Lines 105-106: the FEEDBACK listener has no try block, an error thrown
\* in the run r leaves it.
Escape(r, msg, resp) ==
    /\ ev' = [Event(req[r]) EXCEPT !.end = "escaped", !.err = msg, !.resp = resp]
    /\ req' = [req EXCEPT ![r] = IdleReq]
    /\ UNCHANGED <<cache, lastStore, invalPending>>

\* An error with message msg is thrown in the run r.
Throw(r, msg, resp) ==
    IF req[r].kind = "session" THEN Catch(r, msg, resp) ELSE Escape(r, msg, resp)

\* Line 106: the await of line 105 resumes in run r and sendMessageFeedback
\* is called with the token getAccessToken returned.
CallFeedback(r) ==
    /\ req' = [req EXCEPT ![r] = [@ EXCEPT !.pc = "streaming", !.backend = "feedback"]]
    /\ answered' = answered
    /\ ev' = [Event(req[r]) EXCEPT !.call = "feedback",
                                   !.accessToken = req[r].accessToken,
                                   !.fetches = req[r].fetches]

\* A run that waits for a token at line 32, 39 or 43.
Fetching(rq) == rq.pc \in {"fetch", "json", "safariConfig"}

\* A run whose await of line 62 or 105 is settled and has not resumed: its
\* continuation is a microtask, it runs before time passes and before the
\* next event (a connect, a disconnect, a message, a timeout) is delivered,
\* and only continuations of other runs queued with it can come first.
Resuming == \E r \in Reqs : req[r].pc = "token"

\* Microtasks are queued: a continuation of a run, or of a cleanup loop of
\* the cache.
MicrotasksQueued == Resuming \/ cache.abandoned > 0

\* Lines 29 or 49: getAccessToken returns tok to the run r, which waits for
\* its await to resume; how is how getAccessToken was entered in this step
\* and fetched the token stored in it, if any.
Return(r, tok, how, fetched) ==
    /\ req' = [req EXCEPT ![r] = [@ EXCEPT !.pc = "token", !.accessToken = tok,
                                            !.status = 0]]
    /\ ev' = [Event(req[r]) EXCEPT !.got = how, !.accessToken = tok,
                                   !.fetched = fetched, !.fetches = req[r].fetches]

\* Variant: a token stored in the meantime is kept and returned.
Store_KeepFirst(r, tok) ==
    LET c == IF cache.has THEN cache ELSE CacheSet(cache, tok)
    IN /\ cache' = c
       /\ Return(r, CacheGet(c), "none", tok)
       /\ lastStore' = IF cache.has THEN lastStore
                       ELSE [has |-> TRUE, val |-> tok, age |-> 0, deleted |-> FALSE]
       /\ UNCHANGED invalPending

\* Lines 47 and 49 (or 34 and 49): the token is stored and the cached value
\* is returned.
Store(r, tok) ==
    LET c == CacheSet(cache, tok)
    IN /\ cache' = c
       /\ Return(r, CacheGet(c), "none", tok)
       /\ lastStore' = [has |-> TRUE, val |-> tok, age |-> 0, deleted |-> FALSE]
       /\ UNCHANGED invalPending

\* ----------------------------------------------------------------- actions
\* Line 52: a caller connects a port; the message listener is registered.
\* Ports are numbered in the order they connect.
Connect(p) ==
    /\ ~MicrotasksQueued
    /\ portState[p] = "none"
    /\ \A q \in Ports : q < p => portState[q] # "none"
    /\ portState' = [portState EXCEPT ![p] = "open"]
    /\ ev' = NoEvent
    /\ UNCHANGED <<safari, answered, cache, req, received, lastStore, invalPending>>
    /\ UNCHANGED menuVars

\* Sessions a caller can send besides a new one: a session a web backend
\* was called with (lines 63-67), which the backend reports to the caller
\* and the next turn of that conversation carries.  With the last message
\* (number MaxMsgs) no turn follows and the sessions are forgotten.
PassedBack == answered

\* Variant: the test of line 57 is missing.
Receive_NoTest(r, p, s) ==
    /\ ~MicrotasksQueued
    /\ received < MaxMsgs
    /\ req[r].pc = "idle"
    /\ \A q \in Reqs : q < r => req[q].pc # "idle"
    /\ portState[p] = "open"
    /\ received' = received + 1
    /\ answered' = IF received + 1 < MaxMsgs THEN answered ELSE {}
    /\ req' = [req EXCEPT ![r] = [IdleReq EXCEPT !.pc = "config", !.kind = "session",
                                                 !.no = received + 1,
                                                 !.port = p, !.session = s, !.sent = s]]
    /\ ev' = NoEvent
    /\ UNCHANGED <<safari, cache, portState, lastStore, invalPending>>
    /\ UNCHANGED menuVars

\* Lines 54-58: message number received + 1 arrives on port p; without a
\* session the handler returns, otherwise it awaits getUserConfig().  The
\* run takes the first free slot.
Receive(r, p, s) ==
    /\ ~MicrotasksQueued
    /\ received < MaxMsgs
    /\ req[r].pc = "idle"
    /\ \A q \in Reqs : q < r => req[q].pc # "idle"
    /\ portState[p] = "open"
    /\ received' = received + 1
    /\ answered' = IF received + 1 < MaxMsgs THEN answered ELSE {}
    /\ IF s.present
       THEN /\ req' = [req EXCEPT ![r] = [IdleReq EXCEPT !.pc = "config", !.kind = "session",
                                                        !.no = received + 1,
                                                        !.port = p, !.session = s,
                                                        !.sent = s]]
            /\ ev' = NoEvent
       ELSE /\ req' = req
            /\ ev' = [NoEvent EXCEPT !.kind = "session", !.no = received + 1, !.port = p,
                                    !.end = "ignored"]
    /\ UNCHANGED <<safari, cache, portState, lastStore, invalPending>>
    /\ UNCHANGED menuVars

\* Lines 103-105: message number received + 1 is a FEEDBACK message;
\* getAccessToken runs up to its first await (lines 28-32, 39): a truthy
\* cached value is returned, otherwise the token is read from the
\* configuration (Safari) or fetched.
ReceiveFeedback(r) ==
    /\ ~MicrotasksQueued
    /\ received < MaxMsgs
    /\ req[r].pc = "idle"
    /\ \A q \in Reqs : q < r => req[q].pc # "idle"
    /\ received' = received + 1
    /\ answered' = IF received + 1 < MaxMsgs THEN answered ELSE {}
    /\ invalPending' = FALSE
    /\ LET rq == [IdleReq EXCEPT !.kind = "feedback", !.no = received + 1]
       IN IF Truthy(CacheGet(cache))
          THEN /\ req' = [req EXCEPT ![r] = [rq EXCEPT !.pc = "token",
                                                       !.accessToken = CacheGet(cache)]]
               /\ ev' = [Event(rq) EXCEPT !.got = "hit",
                                          !.accessToken = CacheGet(cache)]
          ELSE /\ req' = [req EXCEPT ![r] = [rq EXCEPT
                              !.pc = IF safari THEN "safariConfig" ELSE "fetch",
                              !.fetches = 1]]
               /\ ev' = [Event(rq) EXCEPT !.got = "miss", !.fetches = 1]
    /\ UNCHANGED <<safari, cache, portState, lastStore>>
    /\ UNCHANGED menuVars

\* Line 58 rejects: the await is outside the try block, the rejection leaves
\* the handler.
ConfigReject(r, m) ==
    /\ req[r].pc = "config"
    /\ ev' = [Event(req[r]) EXCEPT !.end = "escaped", !.err = m]
    /\ req' = [req EXCEPT ![r] = IdleReq]
    /\ UNCHANGED <<safari, answered, cache, portState, received, lastStore, invalPending>>
    /\ UNCHANGED menuVars

\* Variant: the session is given its identifiers before the token is there.
ConfigResolve_IdsFirst(r, cfg) ==
    /\ req[r].pc = "config"
    /\ LET fam == Family(cfg.modelName)
       IN IF fam = "web"
          THEN /\ invalPending' = FALSE
               /\ IF Truthy(CacheGet(cache))
                  THEN /\ req' = [req EXCEPT ![r].pc = "token",
                                             ![r].modelName = cfg.modelName,
                                             ![r].session = WebSession(@, UuidBase(req[r].no)),
                                             ![r].accessToken = CacheGet(cache)]
                       /\ ev' = [Event(req[r]) EXCEPT !.got = "hit", !.config = cfg,
                                                      !.accessToken = CacheGet(cache)]
                  ELSE /\ req' = [req EXCEPT ![r].fetches = @ + 1,
                                             ![r].modelName = cfg.modelName,
                                             ![r].session = WebSession(@, UuidBase(req[r].no)),
                                             ![r].pc = IF safari THEN "safariConfig" ELSE "fetch"]
                       /\ ev' = [Event(req[r]) EXCEPT !.got = "miss", !.config = cfg,
                                                      !.fetches = req[r].fetches + 1]
          ELSE IF fam = "none"
          THEN /\ ev' = [Event(req[r]) EXCEPT !.end = "done", !.config = cfg,
                                              !.session = req[r].session,
                                              !.received = req[r].sent]
               /\ req' = [req EXCEPT ![r] = IdleReq]
               /\ UNCHANGED invalPending
          ELSE CallApi(r, fam, cfg) /\ UNCHANGED invalPending
    /\ UNCHANGED <<safari, answered, cache, portState, received, lastStore>>
    /\ UNCHANGED menuVars

\* Lines 58-92 up to the next await: the configuration is read and the
\* family of config.modelName decides.  For the web family getAccessToken
\* runs up to its first await (lines 28-32, 39): a truthy cached value is
\* returned and the handler waits at line 62 for it, otherwise the token is
\* read from the configuration (Safari) or fetched.
ConfigResolve(r, cfg) ==
    /\ req[r].pc = "config"
    /\ LET fam == Family(cfg.modelName)
       IN IF fam = "web"
          THEN /\ invalPending' = FALSE
               /\ IF Truthy(CacheGet(cache))
                  THEN /\ req' = [req EXCEPT ![r].pc = "token",
                                             ![r].modelName = cfg.modelName,
                                             ![r].accessToken = CacheGet(cache)]
                       /\ ev' = [Event(req[r]) EXCEPT !.got = "hit", !.config = cfg,
                                                      !.accessToken = CacheGet(cache)]
                  ELSE /\ req' = [req EXCEPT ![r].fetches = @ + 1,
                                             ![r].modelName = cfg.modelName,
                                             ![r].pc = IF safari THEN "safariConfig" ELSE "fetch"]
                       /\ ev' = [Event(req[r]) EXCEPT !.got = "miss", !.config = cfg,
                                                      !.fetches = req[r].fetches + 1]
          ELSE IF fam = "none"
          THEN /\ ev' = [Event(req[r]) EXCEPT !.end = "done", !.config = cfg,
                                              !.session = req[r].session,
                                              !.received = req[r].sent]
               /\ req' = [req EXCEPT ![r] = IdleReq]
               /\ UNCHANGED invalPending
          ELSE CallApi(r, fam, cfg) /\ UNCHANGED invalPending
    /\ UNCHANGED <<safari, answered, cache, portState, received, lastStore>>
    /\ UNCHANGED menuVars

\* Lines 62-67 and 105-106: the await of the run r resumes with the token
\* getAccessToken returned and the backend is called with it, whatever the
\* cache holds by now.
Resume(r) ==
    /\ req[r].pc = "token"
    /\ IF req[r].kind = "session" THEN CallWeb(r) ELSE CallFeedback(r)
    /\ UNCHANGED <<safari, cache, portState, received, lastStore, invalPending>>
    /\ UNCHANGED menuVars

\* Lines 39-43: the fetch resolves with a response of this status.  Status
\* 403 throws CLOUDFLARE, the body unread; otherwise the body is read.
FetchResolve(r, status) ==
    /\ req[r].pc = "fetch"
    /\ IF status = 403
       THEN Throw(r, MsgCloudflare, [status |-> status, body |-> NoBody])
       ELSE /\ req' = [req EXCEPT ![r].pc = "json", ![r].status = status]
            /\ ev' = Event(req[r])
            /\ UNCHANGED <<cache, lastStore, invalPending>>
    /\ UNCHANGED <<safari, answered, portState, received>>
    /\ UNCHANGED menuVars

\* Line 39 rejects (network failure).
FetchReject(r, m) ==
    /\ req[r].pc = "fetch"
    /\ Throw(r, m, NoResp)
    /\ UNCHANGED <<safari, answered, portState, received>>
    /\ UNCHANGED menuVars

\* resp.json().catch(() => ({})) of line 43: whether data is null, and the
\* accessToken field of data otherwise (a body that is no JSON gives {}).
JsonIsNull(body) == body.parsed = "null"
JsonAccessToken(body) == IF body.parsed = "object" THEN body.accessToken ELSE NoField

\* Lines 43-49: the body is read.  Reading data.accessToken of null throws a
\* TypeError; without a truthy accessToken UNAUTHORIZED is thrown; else the
\* token is stored and returned.
JsonResolve(r, body) ==
    /\ req[r].pc = "json"
    /\ LET resp == [status |-> req[r].status, body |-> body]
       IN IF JsonIsNull(body)
          THEN Throw(r, MsgNullBody, resp)
          ELSE IF ~Truthy(JsonAccessToken(body))
          THEN Throw(r, MsgUnauthorized, resp)
          ELSE Store(r, JsonAccessToken(body))
    /\ UNCHANGED <<safari, answered, portState, received>>
    /\ UNCHANGED menuVars

\* Lines 32-37, then 49 (Safari): the configuration is read for its
\* accessToken.
SafariConfigResolve(r, tok) ==
    /\ req[r].pc = "safariConfig"
    /\ IF Truthy(tok)
       THEN Store(r, tok)
       ELSE Throw(r, MsgUnauthorized, NoResp)
    /\ UNCHANGED <<safari, answered, portState, received>>
    /\ UNCHANGED menuVars

\* Line 32 rejects.
SafariConfigReject(r, m) ==
    /\ req[r].pc = "safariConfig"
    /\ Throw(r, m, NoResp)
    /\ UNCHANGED <<safari, answered, portState, received>>
    /\ UNCHANGED menuVars

\* The generation capabilities and sendMessageFeedback (apis/*): a call
\* returns or throws; a port
\* disconnected during the call aborts it, and it then fails with the abort
\* error unless it had ended on its own.
\* Lines 67-92 return: the handler ends normally.
BackendReturn(r) ==
    /\ req[r].pc = "streaming"
    /\ Finish(r, "done")
    /\ UNCHANGED <<safari, answered, cache, portState, received, lastStore, invalPending>>
    /\ UNCHANGED menuVars

\* Lines 67-92 throw an error of the backend.
BackendThrow(r, m) ==
    /\ req[r].pc = "streaming"
    /\ Throw(r, m, NoResp)
    /\ UNCHANGED <<safari, answered, portState, received>>
    /\ UNCHANGED menuVars

\* Lines 67-92 throw the abort error of a call cancelled by a disconnect.
BackendAborted(r) ==
    /\ req[r].pc = "streaming"
    /\ req[r].aborted
    /\ Catch(r, MsgUserAbort, NoResp)
    /\ UNCHANGED <<safari, answered, portState, received>>
    /\ UNCHANGED menuVars

\* The caller closes port p: the backend calls in flight on it are aborted.
Disconnect(p) ==
    /\ ~MicrotasksQueued
    /\ portState[p] = "open"
    /\ portState' = [portState EXCEPT ![p] = "closed"]
    /\ req' = [r \in Reqs |-> IF req[r].port = p /\ req[r].pc = "streaming"
                              THEN [req[r] EXCEPT !.aborted = TRUE] ELSE req[r]]
    /\ ev' = NoEvent
    /\ UNCHANGED <<safari, answered, cache, received, lastStore, invalPending>>
    /\ UNCHANGED menuVars

\* Time passes by d milliseconds, as long as a timeout of the cache is not
\* yet due.
Steps == {5000, 5001}
Advance(d) ==
    /\ ~MicrotasksQueued
    /\ \E i \in 1..Len(cache.timers) : cache.timers[i] > 0
    /\ cache' = CacheAdvance(cache, d)
    /\ lastStore' = IF lastStore.has /\ ~lastStore.deleted
                    THEN [lastStore EXCEPT !.age = Older(@, d),
                              !.val = IF Older(lastStore.age, d) > MaxAge THEN NoField ELSE @]
                    ELSE lastStore
    /\ ev' = NoEvent
    /\ UNCHANGED <<safari, answered, portState, req, received, invalPending>>
    /\ UNCHANGED menuVars

\* A cleanup loop of the cache that a set abandoned resumes.
Cleanup ==
    /\ cache.abandoned > 0
    /\ cache' = CacheCleanup(cache)
    /\ ev' = NoEvent
    /\ UNCHANGED <<safari, answered, portState, req, received, lastStore, invalPending>>
    /\ UNCHANGED menuVars

\* A timeout of the cache that is due runs, at once or late.
Timeout ==
    /\ ~MicrotasksQueued
    /\ cache.timers # <<>>
    /\ Head(cache.timers) = 0
    /\ cache' = CacheTimeout(cache)
    /\ ev' = NoEvent
    /\ UNCHANGED <<safari, answered, portState, req, received, lastStore, invalPending>>
    /\ UNCHANGED menuVars

Next ==
    \/ \E p \in Ports : Connect(p)
    \/ \E r \in Reqs, p \in Ports, s \in NewSessions \cup {NoSession} \cup PassedBack : Receive(r, p, s)
    \/ \E r \in Reqs : ReceiveFeedback(r)
    \/ \E r \in Reqs, m \in StorageErrors : ConfigReject(r, m)
    \/ \E r \in Reqs, cfg \in Configs : ConfigResolve(r, cfg)
    \/ \E r \in Reqs : Resume(r)
    \/ \E r \in Reqs, status \in Statuses : FetchResolve(r, status)
    \/ \E r \in Reqs, m \in FetchErrors : FetchReject(r, m)
    \/ \E r \in Reqs, body \in Bodies : JsonResolve(r, body)
    \/ \E r \in Reqs, tok \in TokenFields : SafariConfigResolve(r, tok)
    \/ \E r \in Reqs, m \in StorageErrors : SafariConfigReject(r, m)
    \/ \E r \in Reqs : BackendReturn(r)
    \/ \E r \in Reqs, m \in BackendErrors : BackendThrow(r, m)
    \/ \E r \in Reqs : BackendAborted(r)
    \/ \E p \in Ports : Disconnect(p)
    \/ \E d \in Steps : Advance(d)
    \/ Timeout
    \/ Cleanup

Spec == Init /\ [][Next]_vars

\* ------------------------------------------------------ context menu steps
mainVars == <<safari, cache, portState, req, received, lastStore, invalPending,
             answered, ev>>

\* Lines 158-162, 110-111: a REFRESH_MENU message calls refreshMenu, which
\* issues removeAll().
RefreshMenuMessage ==
    /\ refreshes < MaxRefresh
    /\ refreshes' = refreshes + 1
    /\ api' = Append(api, RemoveAllReq)
    /\ raced' = (raced \/ api # <<>> \/ thens > 0)
    /\ UNCHANGED <<thens, menu, listeners, clicks, lastClick, sentMsgs>>
    /\ UNCHANGED mainVars

\* The browser carries out the oldest request: removeAll empties the menu
\* and resolves its promise, create adds an item.
ApiStep ==
    /\ api # <<>>
    /\ api' = Tail(api)
    /\ IF Head(api).op = "removeAll"
       THEN menu' = <<>> /\ thens' = thens + 1
       ELSE menu' = MenuCreate(menu, Head(api)) /\ thens' = thens
    /\ UNCHANGED <<listeners, refreshes, raced, clicks, lastClick, sentMsgs>>
    /\ UNCHANGED mainVars

\* Lines 111-155: the callback of a resolved removeAll() issues the create
\* calls and registers a listener on onClicked.
ThenCallback ==
    /\ thens > 0
    /\ thens' = thens - 1
    /\ api' = api \o CreateCalls
    /\ listeners' = listeners + 1
    /\ UNCHANGED <<menu, refreshes, raced, clicks, lastClick, sentMsgs>>
    /\ UNCHANGED mainVars

\* Lines 144-154: the user activates an item of the menu in a tab; every
\* registered listener runs.
Click(id, text, tab) ==
    /\ clicks < MaxClicks
    /\ HasItem(menu, id)
    /\ clicks' = clicks + 1
    /\ lastClick' = [id |-> id, text |-> text, tab |-> tab]
    /\ sentMsgs' = [i \in 1..listeners |-> CreateMenuMessage(lastClick', tab)]
    /\ UNCHANGED <<api, thens, menu, listeners, refreshes, raced>>
    /\ UNCHANGED mainVars

MenuNext ==
    \/ RefreshMenuMessage
    \/ ApiStep
    \/ ThenCallback
    \/ \E i \in 1..Len(CreateCalls), text \in SelectionTexts, tab \in Tabs :
          Click(CreateCalls[i].id, text, tab)

MenuSpec == Init /\ [][MenuNext]_vars

\* ------------------------------------------------------------------ claims
\* C1: when the processing of a request (credential acquisition or backend
\* generation) throws an error whose message contains the cancellation
\* marker, the handler posts no {error} envelope and the cache is the same
\* before and after the failure is handled.
C1_AbortSwallowed ==
    [][(ev'.caught /\ StrIncludes(ev'.err, AbortMarker))
         => (ev'.envelope = NoEnvelope /\ ev'.end = "failed" /\ cache' = cache)]_vars

\* C1 witness: an error with the marker was handled on an open port while
\* the cache held a credential.
C1_Witness ==
    /\ ev.caught
    /\ StrIncludes(ev.err, AbortMarker)
    /\ portState[ev.port] = "open"
    /\ cache.has

\* C2 (as stated): every failure handled with an error whose message lacks
\* the marker posts the envelope {error: message} on the request's port and
\* leaves the cache without a credential, in every state of the port.
C2_EveryFailureReported ==
    (ev.caught /\ ~StrIncludes(ev.err, AbortMarker))
        => (ev.envelope = [port |-> ev.port, error |-> ev.err] /\ ~cache.has)

\* C3 (as stated): for a web-session request, getAccessToken entered while
\* the cache holds a credential stored at most maxAge ago starts no fetch;
\* entered otherwise it starts exactly one fetch; and the backend is called
\* after no fetch or after the one fetch of the request has completed.
C3_HitOrOneFetch ==
    [][/\ (ev'.kind = "session" /\ ev'.got # "none") =>
            IF cache.has /\ cache.age <= MaxAge
            THEN ev'.got = "hit" /\ ev'.fetches = 0
            ELSE ev'.got = "miss" /\ ev'.fetches = 1
       /\ (ev'.call = "web") =>
            /\ ev'.fetches <= 1
            /\ \E r \in Reqs : /\ req[r].no = ev'.no
                               /\ req[r].pc = "token"
                               /\ req'[r].pc = "streaming"]_vars

\* C4 (as stated): getAccessToken returns a cached value only if the last
\* store is at most maxAge old; within maxAge of the last store, no delete
\* in between, it returns the stored value without fetching; more than
\* maxAge after the last store it fetches.
C4_TenSeconds ==
    [][(ev'.got # "none") =>
         /\ (ev'.got = "hit")
              => (lastStore.has /\ ~lastStore.deleted /\ lastStore.age <= MaxAge)
         /\ (lastStore.has /\ ~lastStore.deleted /\ lastStore.age < MaxAge)
              => (ev'.got = "hit" /\ ev'.accessToken = lastStore.val /\ ev'.fetches = 0)
         /\ (lastStore.has /\ lastStore.age > MaxAge)
              => (ev'.got = "miss" /\ ev'.fetches = 1)]_vars

\* C5 (as stated): for a request on a port, a fetch answered with status
\* 403 fails with CLOUDFLARE whatever the body, one answered otherwise
\* without an accessToken fails with UNAUTHORIZED, and in both cases the
\* envelope with that message is posted on the request's port.
C5_CallerReceives ==
    (ev.kind = "session" /\ ev.resp.status # 0) =>
        /\ ev.err = IF ev.resp.status = 403 THEN MsgCloudflare ELSE MsgUnauthorized
        /\ ev.envelope = [port |-> ev.port, error |-> ev.err]

\* C6 (as stated): no error leaves the port's message handler, whichever
\* step of the request raised it.
C6_NothingEscapes == (ev.kind = "session") => ev.end # "escaped"

\* C7: when the port was disconnected while the backend call of a request
\* was in flight, the handler posts nothing for that request and its
\* completion or failure handling leaves the cache as it was.
C7_ClosedChannelSilent ==
    [][(ev'.no # 0 /\ ev'.aborted)
         => (ev'.end # "none" /\ ev'.envelope = NoEnvelope /\ cache' = cache)]_vars

\* C7 witness: a backend call cancelled by the disconnect failed with the
\* abort error while the cache held a credential.
C7_Witness ==
    /\ ev.aborted
    /\ ev.err = MsgUserAbort
    /\ cache.has

\* C8 (as stated): the first getAccessToken entered after a cache.delete
\* does not return from the cache but starts a fetch.
C8_RefetchAfterInvalidate ==
    [][(invalPending /\ ev'.got # "none") => ev'.got = "miss"]_vars

\* C9: the web backend is called with the parentMessageId the message
\* carried when it carried one, and with an identifier generated by this
\* request, different from its messageId, when it carried null or none.
C9_ParentStable ==
    (ev.call = "web") =>
        IF IsNullish(ev.received.parentMessageId)
        THEN ev.session.parentMessageId = Uuid(UuidBase(ev.no) + 1)
             /\ ev.session.parentMessageId # ev.session.messageId
        ELSE ev.session.parentMessageId = ev.received.parentMessageId

\* C9 witness: a later turn passed back the parentMessageId generated for an
\* earlier one and the web backend was called with it.
C9_Witness ==
    /\ ev.call = "web"
    /\ ev.received.parentMessageId.kind = "uuid"
    /\ ev.session.parentMessageId = ev.received.parentMessageId

\* C10 (as stated): whatever the family, a generation capability is called
\* with a messageId generated by this request (uuids of different requests
\* differ), not the one the caller supplied.
C10_FreshForAll ==
    (ev.call \in BackendFamilies) =>
        (ev.session.messageId = Uuid(UuidBase(ev.no))
           /\ ev.session.messageId # ev.received.messageId)

\* C10 (amended): the web backend is called with a messageId generated by
\* this request: it is not the one the caller supplied, not an identifier
\* generated for another request, not an identifier that the message of
\* another request in flight carries, and not an identifier of a session
\* another web call was given; the token-based backends are called with the
\* session as the message carried it, whatever its messageId.
C10_FreshForWeb ==
    /\ (ev.call = "web") =>
         /\ ev.session.messageId = Uuid(UuidBase(ev.no))
         /\ ev.session.messageId # ev.received.messageId
         /\ \A n \in 1..MaxMsgs : n # ev.no =>
                ev.session.messageId \notin {Uuid(UuidBase(n)), Uuid(UuidBase(n) + 1)}
         /\ \A r \in Reqs : req[r].no # ev.no =>
                ev.session.messageId \notin {req[r].sent.messageId,
                                             req[r].sent.parentMessageId}
         /\ \A s \in answered \ {ev.session} :
                ev.session.messageId \notin {s.messageId, s.parentMessageId}
    /\ (ev.call \in TokenFamilies) => ev.session = ev.received

\* C10 witness: a later web-session request whose caller passed back the
\* messageId generated for an earlier request had it replaced by its own,
\* while the message of another request in flight carried identifiers too.
C10_Witness ==
    /\ ev.call = "web"
    /\ ev.no > 1
    /\ ev.received.messageId.kind = "uuid"
    /\ ev.session.messageId = Uuid(UuidBase(ev.no))
    /\ \E r \in Reqs : req[r].no # ev.no /\ req[r].sent.messageId.kind \in {"caller", "uuid"}

\* C11: a backend capability is called only by a run that has called none
\* before, and it is the capability paired with the one family whose key
\* list holds the run's config.modelName; the key is in no other family, so
\* the order of the tests does not matter.
C11_OneCapability ==
    [][(ev'.call \in BackendFamilies) =>
         /\ FamiliesOf(ev'.modelName) = {ev'.call}
         /\ \E r \in Reqs : /\ req[r].no = ev'.no
                            /\ req[r].backend = "none"
                            /\ req'[r].backend = ev'.call
                            /\ req'[r].pc = "streaming"]_vars

\* C11 witness: a later request with a key of the third family tested had
\* the chat capability called.
C11_Witness ==
    /\ ev.call = "chat"
    /\ ev.modelName = "chatgptApi35"
    /\ ev.no > 1

\* C12: when the configuration read names a model key of no family, the
\* run ends normally in that step: no getAccessToken, no fetch, no backend
\* call, no envelope, the session as the message carried it, the cache as
\* it was.
C12_UnknownKeyNoAction ==
    [][(ev'.config # NoConfig /\ FamiliesOf(ev'.config.modelName) = {}) =>
         /\ ev'.end = "done"
         /\ ev'.got = "none" /\ ev'.fetches = 0
         /\ ev'.call = "none"
         /\ ev'.envelope = NoEnvelope /\ ev'.err = NoErr
         /\ ev'.session = ev'.received
         /\ cache' = cache
         /\ \A r \in Reqs : req'[r].no # ev'.no]_vars

\* C12 witness: a request with an unknown key ended while the cache held a
\* credential.
C12_Witness ==
    /\ ev.config.modelName = "unknownModel"
    /\ ev.end = "done"
    /\ cache.has

\* C13: a token-based capability is called without getAccessToken being
\* entered and without a fetch, with the apiKey and modelName of the
\* configuration read in that very step, and neither the call nor the
\* successful end of such a request changes the cache.
C13_TokenFamiliesLive ==
    [][/\ (ev'.call \in TokenFamilies) =>
            /\ ev'.got = "none" /\ ev'.fetches = 0 /\ ev'.accessToken = NoField
            /\ ev'.config # NoConfig
            /\ ev'.apiKey = ev'.config.apiKey
            /\ ev'.modelName = ev'.config.modelName
            /\ cache' = cache
       /\ (ev'.end = "done" /\ ev'.backend \in TokenFamilies) =>
            /\ ev'.got = "none" /\ ev'.fetches = 0
            /\ cache' = cache]_vars

\* C13 witness: a later completion request was given the second apiKey
\* while the cache held a credential.
C13_Witness ==
    /\ ev.call = "completion"
    /\ ev.apiKey = "sk-2"
    /\ ev.no > 1
    /\ cache.has

\* C14: a message starts a run only if it carries a session; for one without
\* a session the handler returns at once: no run, no configuration read, no
\* getAccessToken, no backend call, no envelope, the cache as it was.
C14_NoSessionIgnored ==
    [][(received' # received) =>
         /\ \A r \in Reqs : (req'[r] # req[r] /\ req'[r].kind = "session")
                                => req'[r].sent.present
         /\ (ev'.end = "ignored") =>
              /\ req' = req
              /\ cache' = cache
              /\ ev'.config = NoConfig
              /\ ev'.got = "none" /\ ev'.call = "none"
              /\ ev'.envelope = NoEnvelope /\ ev'.err = NoErr]_vars

\* C14 witness: a message without a session was ignored while a run was in
\* flight and the cache held a credential.
C14_Witness ==
    /\ ev.end = "ignored"
    /\ cache.has
    /\ \E r \in Reqs : req[r].pc # "idle"

\* C15 (as stated): when a web-session request that fetched its credential
\* completes successfully, the cache holds that credential.
C15_HeldAtCompletion ==
    (ev.end = "done" /\ ev.backend = "web" /\ ev.fetches = 1)
        => (cache.has /\ cache.val = ev.accessToken)

\* C15 (amended): the step that completes the fetch of a web-session request
\* stores the fetched credential and hands it to the request; the request
\* keeps it while it waits, the web backend is called with it, and neither
\* that call nor the successful completion of the request changes the cache.
C15_FetchedThenHeld ==
    [][/\ (ev'.kind = "session" /\ Truthy(ev'.fetched)) =>
            /\ cache'.has /\ cache'.val = ev'.fetched
            /\ \E r \in Reqs : /\ req'[r].no = ev'.no
                               /\ req'[r].pc = "token"
                               /\ req'[r].fetches = 1
                               /\ req'[r].accessToken = ev'.fetched
       /\ \A r \in Reqs : (req[r].pc = "token" /\ req'[r].pc = "token")
                              => req'[r].accessToken = req[r].accessToken
       /\ (ev'.call = "web" /\ ev'.fetches = 1) =>
            /\ Truthy(ev'.accessToken)
            /\ \E r \in Reqs : /\ req[r].no = ev'.no
                               /\ req[r].accessToken = ev'.accessToken
            /\ cache' = cache
       /\ (ev'.end = "done" /\ ev'.backend = "web" /\ ev'.fetches = 1)
            => cache' = cache]_vars

\* C15 witness: a web-session request that fetched its credential completed
\* while the cache held it.
C15_Witness ==
    /\ ev.end = "done"
    /\ ev.backend = "web"
    /\ ev.fetches = 1
    /\ cache.has
    /\ cache.val = ev.accessToken

\* C19 (as stated): a run of a request with a session ends only as
\* Completed ("done") or Failed ("failed").
C19_EndsCompletedOrFailed ==
    [][\A r \in Reqs : (req[r].kind = "session" /\ req'[r].pc = "idle")
                          => ev'.end \in {"done", "failed"}]_vars

\* C20: a run that waits for its credential has called no backend and holds
\* the session as the message carried it; when getAccessToken fails with
\* UNAUTHORIZED or CLOUDFLARE the run ends without a backend call and with
\* the session's identifiers as the caller sent them.
C20_TokenBeforeIds ==
    [][/\ \A r \in Reqs : (req'[r].pc \in {"fetch", "json", "safariConfig", "token"})
                            => (req'[r].backend = "none" /\ req'[r].session = req'[r].sent)
       /\ (ev'.caught /\ ev'.backend = "none"
             /\ ev'.err \in {MsgUnauthorized, MsgCloudflare}) =>
            /\ ev'.call = "none"
            /\ ev'.session.messageId = ev'.received.messageId
            /\ ev'.session.parentMessageId = ev'.received.parentMessageId
            /\ \A r \in Reqs : req'[r].no # ev'.no]_vars

\* C20 witness: getAccessToken failed with CLOUDFLARE for a request whose
\* session carried no identifiers.
C20_Witness ==
    /\ ev.caught
    /\ ev.backend = "none"
    /\ ev.err = MsgCloudflare
    /\ ev.session.present
    /\ ev.session.parentMessageId = Undefined

\* C18: getAccessToken entered on an empty cache starts a fetch of its own
\* whether or not another run is waiting for its token; every fetch that
\* delivers a token stores it over whatever the cache holds, so the cache
\* holds the token of the fetch that completed last, and the caller is
\* given the value it stored.
C18_NoDeduplication ==
    [][/\ (ev'.got # "none" /\ ~cache.has) =>
            /\ ev'.got = "miss" /\ ev'.fetches = 1
            /\ Cardinality({r \in Reqs : Fetching(req'[r])})
                 = Cardinality({r \in Reqs : Fetching(req[r])}) + 1
       /\ Truthy(ev'.fetched) =>
            /\ cache' = CacheSet(cache, ev'.fetched)
            /\ CacheGet(cache') = ev'.fetched
            /\ ev'.accessToken = ev'.fetched
            /\ \E r \in Reqs : /\ req'[r].no = ev'.no
                               /\ req'[r].pc = "token"
                               /\ req'[r].accessToken = ev'.fetched]_vars

\* C18 witness: a FEEDBACK message and a web-session request both missed;
\* the fetch started second stored tokA first, and the fetch started first
\* completed last and stored tokB over it.
C18_Witness ==
    /\ ev.fetched = "tokB"
    /\ cache.val = "tokB"
    /\ \E q \in Reqs : /\ req[q].pc \in {"token", "streaming"}
                       /\ req[q].no # ev.no
                       /\ req[q].kind # ev.kind
                       /\ req[q].fetches = 1
                       /\ req[q].accessToken = "tokA"
                       /\ ev.no < req[q].no

\* C16: whenever no rebuild is in progress, the menu is the tree one
\* rebuild makes, each item once and nothing else, however many times
\* refreshMenu was called and however the calls overlapped.
C16_RebuildIdempotent ==
    (api = <<>> /\ thens = 0) => menu = FullMenu

\* C16 witness: a REFRESH_MENU message arrived while the rebuild started at
\* load was unfinished, and both rebuilds have completed.
C16_Witness ==
    /\ raced
    /\ refreshes = 2
    /\ listeners = 2
    /\ api = <<>>
    /\ thens = 0
    /\ menu = FullMenu

\* C17 (as stated): an activation sends exactly one CREATE_MENU message to
\* the tab, with the item id stripped of the menu-root prefix and the
\* selection, however many rebuilds came before.
C17_OneMessagePerClick ==
    (lastClick # NoClick) => sentMsgs = <<CreateMenuMessage(lastClick, lastClick.tab)>>

====
